---- MODULE Spec2Model ----
\* Session synchronisation engine of the watch-party server
\* (src/unnamed/part_000): the in-memory session store and user registry,
\* the websocket handlers, the legacy HTTP endpoints and the hourly vacuum.
EXTENDS Integers, Sequences, FiniteSets, TLC

\* ---------------------------------------------------------------- bounds
\* Connections ever accepted (makeId never hands out a user id twice).
MaxUsers == 2
\* Distinct 16-character session ids in play.
MaxSessionIds == 2
\* Longest userIds array explored (reboot can push the same id again and again).
MaxMembers == 2
\* Milliseconds the clock may run past the vacuum threshold.
MaxSlack == 1

\* ------------------------------------------------------- program constants
\* 1000 * 60 * 60: the vacuum's expiry and period.
IdleThreshold == 3600000
\* Length of a makeId() result, and the length reboot demands of a session id.
IdLength == 16
\* users[userId].sessionId === null
NULL == 0
\* Time value of an invalid Date (getTime() gives NaN).
NaN == -1
\* Stands for an integer above 8.64e15, the largest time value a Date holds
\* (the number itself does not fit the checker's integers).
BeyondDateRange == 2147483647

UserIds == 1..MaxUsers
SessionIds == 1..MaxSessionIds
MaxNow == IdleThreshold + MaxSlack

\* ------------------------------------------------------------ JSON values
\* A value as it arrives from a client. A number is whole (val) or has a
\* fractional part (val + 1/2); a string is one of the named texts or a
\* session id (key), with its length.
Num(n) == [type |-> "number", whole |-> TRUE, val |-> n, text |-> "", len |-> 0]
Frac(n) == [type |-> "number", whole |-> FALSE, val |-> n, text |-> "", len |-> 0]
Str(s) == [type |-> "string", whole |-> FALSE, val |-> 0, text |-> s, len |-> 0]
IdStr(k) == [type |-> "string", whole |-> FALSE, val |-> k, text |-> "id", len |-> IdLength]
ShortStr == [type |-> "string", whole |-> FALSE, val |-> 0, text |-> "id", len |-> 5]
Undefined == [type |-> "undefined", whole |-> FALSE, val |-> 0, text |-> "", len |-> 0]

\* typeof x !== 'number' || x % 1 !== 0 || x < 0, negated
IsNonNegInt(x) == x.type = "number" /\ x.whole /\ x.val >= 0
\* typeof x !== 'number' || x % 1 !== 0, negated (legacy create accepts negatives)
IsInt(x) == x.type = "number" /\ x.whole
\* typeof s !== 'string' || (s !== 'playing' && s !== 'paused'), negated
IsState(x) == x.type = "string" /\ x.text \in {"playing", "paused"}
\* typeof id !== 'string' || id.length !== 16, negated
IsSessionId(x) == x.type = "string" /\ x.len = IdLength

\* new Date(ms): the time value is kept up to 8.64e15 and is NaN beyond.
NewDate(ms) == IF ms >= BeyondDateRange THEN NaN ELSE ms
\* date.getTime()
GetTime(date) == date

\* Malformed values the clients send, field by field: every way a check can fail.
Malformed ==
  [ids |-> {ShortStr, Num(1)},
   times |-> {Num(-1), Frac(1), Undefined},
   epochs |-> {Num(-1), Frac(3), Str("soon")},
   states |-> {Str("stopped"), Num(1), Undefined},
   videos |-> {Num(-1), Frac(7), Str("7")}]
\* One malformed value a field, enough to reach every error answer.
Sparse ==
  [ids |-> {ShortStr}, times |-> {Num(-1)}, epochs |-> {Str("soon")},
   states |-> {Str("stopped")}, videos |-> {Frac(7)}]

\* No malformed value at all.
NoBad == [ids |-> {}, times |-> {}, epochs |-> {}, states |-> {}, videos |-> {}]

\* A well-formed playback report: a position, the epoch it was read at, the state.
Playback(t, e, s) ==
  [sessionId |-> Undefined, lastKnownTime |-> Num(t), lastKnownTimeUpdatedAt |-> Num(e),
   state |-> Str(s), videoId |-> Undefined]
\* The report the clients send, and one whose epoch no Date can hold.
Playing == Playback(5, 3, "playing")
Distant == Playback(0, BeyondDateRange, "paused")

\* ------------------------------------------------------------------ state
VARIABLES
  sessions,   \* session id -> session record (the keys are the ids in the store)
  users,      \* user id -> [sessionId]
  issued,     \* ids makeId has returned so far: [user: set, session: set]
  now,        \* the wall clock, in milliseconds
  crashed,    \* a handler threw: the process is gone
  lastEvent   \* the call handled last: its input, its answer, the pushes it sent

vars == <<sessions, users, issued, now, crashed, lastEvent>>

\* obj[key] = value / delete obj[key]
Put(obj, key, value) == [k \in DOMAIN obj \cup {key} |-> IF k = key THEN value ELSE obj[k]]
Delete(obj, key) == [k \in DOMAIN obj \ {key} |-> obj[k]]
Empty == [k \in {} |-> 0]

NoData == [sessionId |-> Undefined, lastKnownTime |-> Undefined,
           lastKnownTimeUpdatedAt |-> Undefined, state |-> Undefined,
           videoId |-> Undefined]
NoResp == [sessionId |-> NULL, lastKnownTime |-> NaN, lastKnownTimeUpdatedAt |-> NaN,
           state |-> "", videoId |-> NaN]

\* What is kept of the call handled last: the handler, the caller, the session
\* it named or made, whether it made it, the payload, the error answered ("" for
\* none), the answer, and the 'update' events emitted, in order.
Event(op, userId, sessionId, created, data, error, resp, pushes) ==
  [op |-> op, userId |-> userId, sessionId |-> sessionId, created |-> created,
   data |-> data, error |-> error, resp |-> resp, pushes |-> pushes]

Init ==
  /\ sessions = Empty
  /\ users = Empty
  /\ issued = [user |-> {}, session |-> {}]
  /\ now = 0
  /\ crashed = FALSE
  /\ lastEvent = Event("start", NULL, NULL, FALSE, NoData, "", NoResp, <<>>)

\* ------------------------------------------------------------- makeId
\* makeId(): 16 hex digits of a random UUID. An id it returns has not been seen
\* before; which of the unseen ids it is does not matter, so the least is taken.
FreshUserIds == UserIds \ issued.user
FreshSessionIds == SessionIds \ issued.session
Least(S) == CHOOSE x \in S : \A y \in S : x <= y

\* ------------------------------------------------------------ helpers
\* Pull as a splice of the first occurrence alone.
PullFirst(array, value) ==
  LET hits == {i \in 1..Len(array) : array[i] = value} IN
  IF hits = {} THEN array
  ELSE LET first == Least(hits) IN
       SubSeq(array, 1, first - 1) \o SubSeq(array, first + 1, Len(array))

\* lodash.pull(array, value): every occurrence goes.
Pull(array, value) == SelectSeq(array, LAMBDA x : x # value)

\* The answer reboot, createSession and joinSession build from the stored record.
StateOf(session) ==
  [NoResp EXCEPT !.lastKnownTime = session.lastKnownTime,
                 !.lastKnownTimeUpdatedAt = GetTime(session.lastKnownTimeUpdatedAt),
                 !.state = session.state]

\* res.json(session): the legacy endpoints answer with the whole record.
RecordOf(session) ==
  [StateOf(session) EXCEPT !.sessionId = session.id, !.videoId = session.videoId]

\* The payload of an 'update' event emitted to user `to`.
Push(to, session) ==
  [to |-> to, lastKnownTime |-> session.lastKnownTime,
   lastKnownTimeUpdatedAt |-> GetTime(session.lastKnownTimeUpdatedAt),
   state |-> session.state]

\* An error answer, and return: the stores are left alone. (The rejected
\* payload is not kept; the session id it named is.)
Reject(op, userId, sessionId, error) ==
  /\ lastEvent' = Event(op, userId, sessionId, FALSE, NoData, error, NoResp, <<>>)
  /\ UNCHANGED <<sessions, users, issued, now, crashed>>

\* A property of undefined is read: the handler throws and the process dies.
Throw(op, userId, sessionId, data) ==
  /\ lastEvent' = Event(op, userId, sessionId, FALSE, data, "TypeError", NoResp, <<>>)
  /\ crashed' = TRUE
  /\ UNCHANGED <<sessions, users, issued, now>>

\* The session id a payload names, NULL when it is no well-formed id.
NamedId(x) == IF IsSessionId(x) THEN x.val ELSE NULL

\* ------------------------------------------------------- io.on('connection')
Connection ==
  /\ ~crashed
  /\ FreshUserIds # {}
  /\ LET userId == Least(FreshUserIds) IN
       /\ users' = Put(users, userId, [id |-> userId, sessionId |-> NULL])
       /\ issued' = [issued EXCEPT !.user = @ \cup {userId}]
       /\ lastEvent' = Event("connection", userId, NULL, FALSE, NoData, "", NoResp, <<>>)
  /\ UNCHANGED <<sessions, now, crashed>>

\* --------------------------------------------------------- socket.on('reboot')
\* The payloads reboot is called with: each report for each session id, with a
\* video id, and the malformed variants of one of them.
RebootInputs(playbacks, bad) ==
  LET base == [Playing EXCEPT !.sessionId = IdStr(1), !.videoId = Num(7)]
  IN {[p EXCEPT !.sessionId = IdStr(k), !.videoId = Num(7)] : p \in playbacks, k \in SessionIds}
     \cup {[base EXCEPT !.sessionId = x] : x \in bad.ids}
     \cup {[base EXCEPT !.lastKnownTime = x] : x \in bad.times}
     \cup {[base EXCEPT !.lastKnownTimeUpdatedAt = x] : x \in bad.epochs}
     \cup {[base EXCEPT !.state = x] : x \in bad.states}
     \cup {[base EXCEPT !.videoId = x] : x \in bad.videos}

\* The checks reboot makes, in order; "" when the payload passes them all.
RebootError(data) ==
  IF ~IsSessionId(data.sessionId) THEN "Invalid session ID."
  ELSE IF ~IsNonNegInt(data.lastKnownTime) THEN "Invalid lastKnownTime."
  ELSE IF ~IsNonNegInt(data.lastKnownTimeUpdatedAt) THEN "Invalid lastKnownTimeUpdatedAt."
  ELSE IF ~IsState(data.state) THEN "Invalid state."
  ELSE IF ~IsNonNegInt(data.videoId) THEN "Invalid video ID."
  ELSE ""

\* RebootStore with the caller's values written over the session that is there.
RebootStoreOverwriting(store, userId, data) ==
  LET sessionId == data.sessionId.val IN
  IF sessionId \in DOMAIN store
  THEN [store EXCEPT ![sessionId].userIds = Append(@, userId),
                     ![sessionId].lastKnownTime = data.lastKnownTime.val,
                     ![sessionId].lastKnownTimeUpdatedAt = NewDate(data.lastKnownTimeUpdatedAt.val),
                     ![sessionId].state = data.state.text,
                     ![sessionId].videoId = data.videoId.val]
  ELSE Put(store, sessionId,
           [id |-> sessionId,
            lastActivity |-> now,
            lastKnownTime |-> data.lastKnownTime.val,
            lastKnownTimeUpdatedAt |-> NewDate(data.lastKnownTimeUpdatedAt.val),
            state |-> data.state.text,
            videoId |-> data.videoId.val,
            userIds |-> <<userId>>])

\* The store after a well-formed reboot: the caller is pushed onto the session
\* that is there, or a session is made from the caller's values.
RebootStore(store, userId, data) ==
  LET sessionId == data.sessionId.val IN
  IF sessionId \in DOMAIN store
  THEN [store EXCEPT ![sessionId].userIds = Append(@, userId)]
  ELSE Put(store, sessionId,
           [id |-> sessionId,
            lastActivity |-> now,
            lastKnownTime |-> data.lastKnownTime.val,
            lastKnownTimeUpdatedAt |-> NewDate(data.lastKnownTimeUpdatedAt.val),
            state |-> data.state.text,
            videoId |-> data.videoId.val,
            userIds |-> <<userId>>])

Reboot(userId, data) ==
  /\ ~crashed
  /\ userId \in DOMAIN users
  /\ IF RebootError(data) # ""
       THEN Reject("reboot", userId, NamedId(data.sessionId), RebootError(data))
     ELSE LET sessionId == data.sessionId.val IN
       /\ sessionId \in DOMAIN sessions => Len(sessions[sessionId].userIds) < MaxMembers
       /\ sessions' = RebootStore(sessions, userId, data)
       /\ users' = [users EXCEPT ![userId].sessionId = sessionId]
       /\ issued' = [issued EXCEPT !.session = @ \cup {sessionId}]
       /\ lastEvent' = Event("reboot", userId, sessionId, sessionId \notin DOMAIN sessions,
                             data, "", StateOf(sessions'[sessionId]), <<>>)
       /\ UNCHANGED <<now, crashed>>

\* -------------------------------------------------- socket.on('createSession')
CreateError(videoId) == IF ~IsNonNegInt(videoId) THEN "Invalid video ID." ELSE ""

\* CreateStore with the new session started in the 'playing' state.
CreateStorePlaying(store, sessionId, userId, videoId) ==
  Put(store, sessionId,
      [id |-> sessionId,
       lastActivity |-> now,
       lastKnownTime |-> 0,
       lastKnownTimeUpdatedAt |-> now,
       state |-> "playing",
       userIds |-> <<userId>>,
       videoId |-> videoId.val])

CreateStore(store, sessionId, userId, videoId) ==
  Put(store, sessionId,
      [id |-> sessionId,
       lastActivity |-> now,
       lastKnownTime |-> 0,
       lastKnownTimeUpdatedAt |-> now,
       state |-> "paused",
       userIds |-> <<userId>>,
       videoId |-> videoId.val])

CreateSession(userId, videoId) ==
  /\ ~crashed
  /\ userId \in DOMAIN users
  /\ IF CreateError(videoId) # ""
       THEN Reject("createSession", userId, NULL, CreateError(videoId))
     ELSE
       /\ FreshSessionIds # {}
       /\ LET sessionId == Least(FreshSessionIds) IN
            /\ users' = [users EXCEPT ![userId].sessionId = sessionId]
            /\ sessions' = CreateStore(sessions, sessionId, userId, videoId)
            /\ issued' = [issued EXCEPT !.session = @ \cup {sessionId}]
            /\ lastEvent' = Event("createSession", userId, sessionId, TRUE,
                                  [NoData EXCEPT !.videoId = videoId], "",
                                  [StateOf(sessions'[sessionId]) EXCEPT !.sessionId = sessionId],
                                  <<>>)
       /\ UNCHANGED <<now, crashed>>

\* ---------------------------------------------------- socket.on('joinSession')
\* JoinError without the check that the caller is in no session.
JoinErrorUnknownOnly(userId, sessionId) ==
  IF sessionId.type # "string" \/ NamedId(sessionId) \notin DOMAIN sessions
    THEN "Invalid session ID."
  ELSE ""

\* The checks joinSession makes, in order: the session must be there, and the
\* caller must be in no session.
JoinError(userId, sessionId) ==
  IF sessionId.type # "string" \/ NamedId(sessionId) \notin DOMAIN sessions
    THEN "Invalid session ID."
  ELSE IF users[userId].sessionId # NULL THEN "Already in a session."
  ELSE ""

JoinStore(store, sessionId, userId) ==
  [store EXCEPT ![sessionId].userIds = Append(@, userId)]

JoinSession(userId, sessionId) ==
  /\ ~crashed
  /\ userId \in DOMAIN users
  /\ IF JoinError(userId, sessionId) # ""
       THEN Reject("joinSession", userId, NamedId(sessionId), JoinError(userId, sessionId))
     ELSE
       /\ Len(sessions[sessionId.val].userIds) < MaxMembers
       /\ users' = [users EXCEPT ![userId].sessionId = sessionId.val]
       /\ sessions' = JoinStore(sessions, sessionId.val, userId)
       /\ lastEvent' = Event("joinSession", userId, sessionId.val, FALSE,
                             [NoData EXCEPT !.sessionId = sessionId], "",
                             [StateOf(sessions'[sessionId.val])
                                EXCEPT !.videoId = sessions'[sessionId.val].videoId],
                             <<>>)
       /\ UNCHANGED <<issued, now, crashed>>

\* --------------------------------------------------- socket.on('leaveSession')
LeaveError(userId) == IF users[userId].sessionId = NULL THEN "Not in a session." ELSE ""

\* LeaveStore without the delete of a session left empty.
LeaveStoreKeeping(store, sessionId, userId) ==
  [store EXCEPT ![sessionId].userIds = Pull(@, userId)]

\* The caller is pulled out of the session, and the session is deleted when
\* that leaves its userIds empty.
LeaveStore(store, sessionId, userId) ==
  LET pulled == [store EXCEPT ![sessionId].userIds = Pull(@, userId)] IN
  IF Len(pulled[sessionId].userIds) = 0 THEN Delete(pulled, sessionId) ELSE pulled

LeaveSession(userId) ==
  /\ ~crashed
  /\ userId \in DOMAIN users
  /\ IF LeaveError(userId) # ""
       THEN Reject("leaveSession", userId, NULL, LeaveError(userId))
     ELSE LET sessionId == users[userId].sessionId IN
       IF sessionId \notin DOMAIN sessions
         THEN Throw("leaveSession", userId, sessionId, NoData)
       ELSE
         /\ sessions' = LeaveStore(sessions, sessionId, userId)
         /\ users' = [users EXCEPT ![userId].sessionId = NULL]
         /\ lastEvent' = Event("leaveSession", userId, sessionId, FALSE, NoData, "",
                               NoResp, <<>>)
         /\ UNCHANGED <<issued, now, crashed>>

\* -------------------------------------------------- socket.on('updateSession')
UpdateInputs(playbacks, bad) ==
  playbacks
  \cup {[Playing EXCEPT !.lastKnownTime = x] : x \in bad.times}
  \cup {[Playing EXCEPT !.lastKnownTimeUpdatedAt = x] : x \in bad.epochs}
  \cup {[Playing EXCEPT !.state = x] : x \in bad.states}

\* UpdateError without the check of the state.
UpdateErrorAnyState(userId, data) ==
  IF users[userId].sessionId = NULL THEN "Not in a session."
  ELSE IF ~IsNonNegInt(data.lastKnownTime) THEN "Invalid lastKnownTime."
  ELSE IF ~IsNonNegInt(data.lastKnownTimeUpdatedAt) THEN "Invalid lastKnownTimeUpdatedAt."
  ELSE ""

\* The checks updateSession makes, in order.
UpdateError(userId, data) ==
  IF users[userId].sessionId = NULL THEN "Not in a session."
  ELSE IF ~IsNonNegInt(data.lastKnownTime) THEN "Invalid lastKnownTime."
  ELSE IF ~IsNonNegInt(data.lastKnownTimeUpdatedAt) THEN "Invalid lastKnownTimeUpdatedAt."
  ELSE IF ~IsState(data.state) THEN "Invalid state."
  ELSE ""

UpdateStore(store, sessionId, data) ==
  [store EXCEPT ![sessionId].lastActivity = now,
                ![sessionId].lastKnownTime = data.lastKnownTime.val,
                ![sessionId].lastKnownTimeUpdatedAt = NewDate(data.lastKnownTimeUpdatedAt.val),
                ![sessionId].state = data.state.text]

\* lodash.forEach(userIds, ...) with if (id !== userId): the ids an update is
\* emitted to, in order.
Recipients(userIds, userId) == SelectSeq(userIds, LAMBDA id : id # userId)

\* The first recipient that has no record in users (users[id].socket throws), or 0.
FirstMissing(recipients) ==
  LET missing == {i \in 1..Len(recipients) : recipients[i] \notin DOMAIN users} IN
  IF missing = {} THEN 0 ELSE Least(missing)

UpdateSession(userId, data) ==
  /\ ~crashed
  /\ userId \in DOMAIN users
  /\ IF UpdateError(userId, data) # ""
       THEN Reject("updateSession", userId, NULL, UpdateError(userId, data))
     ELSE LET sessionId == users[userId].sessionId IN
       IF sessionId \notin DOMAIN sessions
         THEN Throw("updateSession", userId, sessionId, data)
       ELSE
         LET store == UpdateStore(sessions, sessionId, data)
             recipients == Recipients(store[sessionId].userIds, userId)
             missing == FirstMissing(recipients)
             reached == IF missing = 0 THEN recipients ELSE SubSeq(recipients, 1, missing - 1)
         IN
         /\ sessions' = store
         /\ crashed' = (missing # 0)
         /\ lastEvent' = Event("updateSession", userId, sessionId, FALSE, data,
                               IF missing = 0 THEN "" ELSE "TypeError", NoResp,
                               [i \in 1..Len(reached) |-> Push(reached[i], store[sessionId])])
         /\ UNCHANGED <<users, issued, now>>

\* ----------------------------------------------------- socket.on('disconnect')
\* DisconnectStore without the delete of a session left empty.
DisconnectStoreKeeping(store, sessionId, userId) ==
  IF sessionId = NULL THEN store
  ELSE [store EXCEPT ![sessionId].userIds = Pull(@, userId)]

\* if (sessionId !== null): the user is pulled out of the session, and the
\* session is deleted when that leaves its userIds empty.
DisconnectStore(store, sessionId, userId) ==
  IF sessionId = NULL THEN store
  ELSE LET pulled == [store EXCEPT ![sessionId].userIds = Pull(@, userId)] IN
       IF Len(pulled[sessionId].userIds) = 0 THEN Delete(pulled, sessionId) ELSE pulled

Disconnect(userId) ==
  /\ ~crashed
  /\ userId \in DOMAIN users
  /\ LET sessionId == users[userId].sessionId IN
     IF sessionId # NULL /\ sessionId \notin DOMAIN sessions
       THEN Throw("disconnect", userId, sessionId, NoData)
     ELSE
       /\ sessions' = DisconnectStore(sessions, sessionId, userId)
       /\ users' = Delete(users, userId)
       /\ lastEvent' = Event("disconnect", userId, sessionId, FALSE, NoData, "", NoResp, <<>>)
       /\ UNCHANGED <<issued, now, crashed>>

\* ------------------------------------------------------- setInterval vacuum
\* Expired for a session with members too.
ExpiredWithMembers(session) == session.lastActivity + IdleThreshold < now

\* expiresAt < new Date() && userIds.length === 0
Expired(session) ==
  session.lastActivity + IdleThreshold < now /\ Len(session.userIds) = 0

\* VacuumStore deleting one old session a sweep.
VacuumStoreOne(store) ==
  LET oldSessionIds == {id \in DOMAIN store : Expired(store[id])} IN
  IF oldSessionIds = {} THEN store ELSE Delete(store, Least(oldSessionIds))

VacuumStore(store) ==
  LET oldSessionIds == {id \in DOMAIN store : Expired(store[id])} IN
  [id \in DOMAIN store \ oldSessionIds |-> store[id]]

\* What is kept of a sweep: the ids it deleted and, when it ran right after a
\* sweep with no call and no time between them, the ids that one deleted.
SweepEvent(removed) ==
  [op |-> "vacuum", userId |-> NULL, sessionId |-> NULL, created |-> FALSE,
   data |-> NoData, error |-> "", resp |-> NoResp, pushes |-> <<>>,
   removed |-> removed,
   follows |-> lastEvent.op = "vacuum",
   prior |-> IF lastEvent.op = "vacuum" THEN lastEvent.removed ELSE {}]

Vacuum ==
  /\ ~crashed
  /\ sessions' = VacuumStore(sessions)
  /\ lastEvent' = SweepEvent(DOMAIN sessions \ DOMAIN sessions')
  /\ UNCHANGED <<users, issued, now, crashed>>

\* ------------------------------------------------ POST /sessions/create
LegacyCreateError(videoId) ==
  IF videoId.type = "undefined" THEN "500 Missing parameter: videoId"
  ELSE IF ~IsInt(videoId) THEN "500 Invalid parameter: videoId"
  ELSE ""

LegacyCreateStore(store, sessionId, videoId) ==
  Put(store, sessionId,
      [id |-> sessionId,
       lastActivity |-> now,
       lastKnownTime |-> 0,
       lastKnownTimeUpdatedAt |-> now,
       state |-> "paused",
       userIds |-> <<>>,
       videoId |-> videoId.val])

LegacyCreate(videoId) ==
  /\ ~crashed
  /\ IF LegacyCreateError(videoId) # ""
       THEN Reject("POST create", NULL, NULL, LegacyCreateError(videoId))
     ELSE
       /\ FreshSessionIds # {}
       /\ LET sessionId == Least(FreshSessionIds) IN
            /\ sessions' = LegacyCreateStore(sessions, sessionId, videoId)
            /\ issued' = [issued EXCEPT !.session = @ \cup {sessionId}]
            /\ lastEvent' = Event("POST create", NULL, sessionId, TRUE,
                                  [NoData EXCEPT !.videoId = videoId], "",
                                  RecordOf(sessions'[sessionId]), <<>>)
       /\ UNCHANGED <<users, now, crashed>>

\* ------------------------------------------------ POST /sessions/:id/update
\* The bodies POST update is called with (a body carries no epoch).
LegacyUpdateInputs(bad) ==
  LET base == [Playing EXCEPT !.lastKnownTimeUpdatedAt = Undefined]
  IN {base}
     \cup {[base EXCEPT !.lastKnownTime = x] : x \in bad.times}
     \cup {[base EXCEPT !.state = x] : x \in bad.states}

\* LegacyUpdateError without the check lastKnownTime < 0.
LegacyUpdateErrorSigned(sessionId, body) ==
  IF sessionId \notin DOMAIN sessions THEN "404 Unknown session id"
  ELSE IF body.lastKnownTime.type = "undefined" THEN "500 Missing parameter: lastKnownTime"
  ELSE IF ~IsInt(body.lastKnownTime) THEN "500 Invalid parameter: lastKnownTime"
  ELSE IF body.state.type = "undefined" THEN "500 Missing parameter: state"
  ELSE IF body.state.type # "string" THEN "500 Invalid parameter: state"
  ELSE IF body.state.text \notin {"playing", "paused"} THEN "500 Invalid parameter: state"
  ELSE ""

\* The checks POST update makes, in order, as status and message.
LegacyUpdateError(sessionId, body) ==
  IF sessionId \notin DOMAIN sessions THEN "404 Unknown session id"
  ELSE IF body.lastKnownTime.type = "undefined" THEN "500 Missing parameter: lastKnownTime"
  ELSE IF ~IsInt(body.lastKnownTime) THEN "500 Invalid parameter: lastKnownTime"
  ELSE IF body.lastKnownTime.val < 0 THEN "500 Invalid parameter: lastKnownTime"
  ELSE IF body.state.type = "undefined" THEN "500 Missing parameter: state"
  ELSE IF body.state.type # "string" THEN "500 Invalid parameter: state"
  ELSE IF body.state.text \notin {"playing", "paused"} THEN "500 Invalid parameter: state"
  ELSE ""

LegacyUpdateStore(store, sessionId, body) ==
  [store EXCEPT ![sessionId].lastActivity = now,
                ![sessionId].lastKnownTime = body.lastKnownTime.val,
                ![sessionId].lastKnownTimeUpdatedAt = now,
                ![sessionId].state = body.state.text]

LegacyUpdate(sessionId, body) ==
  /\ ~crashed
  /\ IF LegacyUpdateError(sessionId, body) # ""
       THEN Reject("POST update", NULL, sessionId, LegacyUpdateError(sessionId, body))
     ELSE
       /\ sessions' = LegacyUpdateStore(sessions, sessionId, body)
       /\ lastEvent' = Event("POST update", NULL, sessionId, FALSE,
                             [body EXCEPT !.sessionId = IdStr(sessionId)], "",
                             RecordOf(sessions'[sessionId]), <<>>)
       /\ UNCHANGED <<users, issued, now, crashed>>

\* ------------------------------------------------ GET /sessions/:id
LegacyGet(sessionId) ==
  /\ ~crashed
  /\ IF sessionId \notin DOMAIN sessions
       THEN Reject("GET", NULL, sessionId, "404 Unknown session id")
     ELSE
       /\ sessions' = [sessions EXCEPT ![sessionId].lastActivity = now]
       /\ lastEvent' = Event("GET", NULL, sessionId, FALSE, NoData, "",
                             RecordOf(sessions'[sessionId]), <<>>)
       /\ UNCHANGED <<users, issued, now, crashed>>

\* ------------------------------------------------------------- the clock
\* Time passes between two events.
Tick(ms) ==
  /\ ~crashed
  /\ now + ms <= MaxNow
  /\ now' = now + ms
  /\ lastEvent' = Event("tick", NULL, NULL, FALSE, NoData, "", NoResp, <<>>)
  /\ UNCHANGED <<sessions, users, issued, crashed>>

\* ------------------------------------------------------- specifications
\* Everything that happens before the clock moves on: the websocket handlers
\* and the legacy endpoints that create and update sessions.
Next ==
  \/ Connection
  \/ \E userId \in UserIds, data \in RebootInputs({Playing}, Sparse) : Reboot(userId, data)
  \/ \E userId \in UserIds, videoId \in {Num(0), Num(7)} \cup Sparse.videos :
        CreateSession(userId, videoId)
  \/ \E userId \in UserIds, sessionId \in {IdStr(k) : k \in SessionIds} \cup Sparse.ids :
        JoinSession(userId, sessionId)
  \/ \E userId \in UserIds : LeaveSession(userId)
  \/ \E userId \in UserIds, data \in UpdateInputs({Playing}, Sparse) : UpdateSession(userId, data)
  \/ \E userId \in UserIds : Disconnect(userId)
  \/ \E videoId \in {Num(7)} \cup Sparse.videos : LegacyCreate(videoId)
  \/ \E sessionId \in SessionIds, body \in LegacyUpdateInputs(Sparse) :
        LegacyUpdate(sessionId, body)

Spec == Init /\ [][Next]_vars

\* The websocket handlers alone, the clients also sending an epoch beyond the
\* range of a Date.
NextDistant ==
  \/ Connection
  \/ \E userId \in UserIds, data \in RebootInputs({Playing, Distant}, Sparse) :
        Reboot(userId, data)
  \/ \E userId \in UserIds, sessionId \in {IdStr(k) : k \in SessionIds} :
        JoinSession(userId, sessionId)
  \/ \E userId \in UserIds : LeaveSession(userId)
  \/ \E userId \in UserIds, data \in UpdateInputs({Playing, Distant}, Sparse) :
        UpdateSession(userId, data)
  \/ \E userId \in UserIds : Disconnect(userId)

SpecDistant == Init /\ [][NextDistant]_vars

\* The ticks of the clock: up to the idle threshold, and past it.
Ticks == {IdleThreshold, IdleThreshold + 1}

\* The server over time: the websocket handlers and the legacy endpoints with
\* well-formed input, the clock and the sweep.
NextTimed ==
  \/ Connection
  \/ \E userId \in UserIds, data \in RebootInputs({Playing}, NoBad) : Reboot(userId, data)
  \/ \E userId \in UserIds : CreateSession(userId, Num(7))
  \/ \E userId \in UserIds, sessionId \in {IdStr(k) : k \in SessionIds} :
        JoinSession(userId, sessionId)
  \/ \E userId \in UserIds : LeaveSession(userId)
  \/ \E userId \in UserIds : UpdateSession(userId, Playing)
  \/ \E userId \in UserIds : Disconnect(userId)
  \/ LegacyCreate(Num(7))
  \/ \E sessionId \in SessionIds : LegacyGet(sessionId)
  \/ \E ms \in Ticks : Tick(ms)
  \/ Vacuum

SpecTimed == Init /\ [][NextTimed]_vars

\* The legacy endpoints with every input, the clock and the sweep, and users
\* who join and leave the sessions the legacy endpoint made.
NextLegacy ==
  \/ Connection
  \/ \E userId \in UserIds, sessionId \in {IdStr(k) : k \in SessionIds} :
        JoinSession(userId, sessionId)
  \/ \E userId \in UserIds : LeaveSession(userId)
  \/ \E userId \in UserIds : Disconnect(userId)
  \/ \E videoId \in {Num(7), Undefined} \cup Malformed.videos : LegacyCreate(videoId)
  \/ \E sessionId \in SessionIds, body \in LegacyUpdateInputs(Malformed) :
        LegacyUpdate(sessionId, body)
  \/ \E sessionId \in SessionIds : LegacyGet(sessionId)
  \/ \E ms \in Ticks : Tick(ms)
  \/ Vacuum

SpecLegacy == Init /\ [][NextLegacy]_vars

\* ------------------------------------------------------------- claims
\* The users a session's userIds holds.
Members(sessionId) ==
  {sessions[sessionId].userIds[i] : i \in DOMAIN sessions[sessionId].userIds}
\* The user is connected and its sessionId names the session.
Joined(userId, sessionId) == userId \in DOMAIN users /\ users[userId].sessionId = sessionId
\* The 'update' events of the last call that went to the user.
PushesTo(userId) == {i \in DOMAIN lastEvent.pushes : lastEvent.pushes[i].to = userId}
\* The last call was handler `op` and ran to its end without an error answer.
Did(op) == lastEvent.op = op /\ lastEvent.error = ""

\* C1: after a successful updateSession(t, e, s) by a user joined to session S,
\* every other user joined to S has been sent exactly one 'update' carrying
\* {t, e, s}, the caller none, and no user that is not joined to S any.
C1_UpdateReachesExactlyTheOthers ==
  Did("updateSession") =>
    \A userId \in UserIds :
      IF userId # lastEvent.userId /\ Joined(userId, lastEvent.sessionId)
      THEN /\ Cardinality(PushesTo(userId)) = 1
           /\ \A i \in PushesTo(userId) :
                /\ lastEvent.pushes[i].lastKnownTime = lastEvent.data.lastKnownTime.val
                /\ lastEvent.pushes[i].lastKnownTimeUpdatedAt
                     = lastEvent.data.lastKnownTimeUpdatedAt.val
                /\ lastEvent.pushes[i].state = lastEvent.data.state.text
      ELSE PushesTo(userId) = {}

\* C2: a user belongs to at most one session: each user id is in the userIds of
\* at most one session, and that session is the one its sessionId names.
C2_AtMostOneSession ==
  \A userId \in UserIds :
    /\ Cardinality({s \in DOMAIN sessions : userId \in Members(s)}) <= 1
    /\ \A s \in DOMAIN sessions :
         (userId \in DOMAIN users /\ userId \in Members(s)) => users[userId].sessionId = s

\* C3: every id in a session's userIds is a key of users, so a disconnected
\* user's id is in no session and the broadcast of updateSession never reads
\* the record of a user that is gone.
C3_MembersAreUsers ==
  /\ \A s \in DOMAIN sessions : Members(s) \subseteq DOMAIN users
  /\ ~(crashed /\ lastEvent.op = "updateSession")

\* The users the userIds of a session of the store holds.
MembersIn(store, sessionId) ==
  {store[sessionId].userIds[i] : i \in DOMAIN store[sessionId].userIds}
\* The step is a call of handler `op`.
Calls(op) == lastEvent'.op = op
\* The step is a call of handler `op` that ran to its end without an error answer.
Does(op) == lastEvent'.op = op /\ lastEvent'.error = ""

\* C4: a leaveSession or disconnect that empties the userIds of the caller's
\* session deletes the session in that step (no session is left there with an
\* empty list, and no list has a negative length), and a joinSession naming the
\* deleted id as the very next call is answered "Invalid session ID." and
\* changes nothing.
C4_Step ==
  /\ ((Does("leaveSession") \/ Does("disconnect")) /\ lastEvent'.sessionId # NULL) =>
       LET sessionId == lastEvent'.sessionId IN
       /\ sessionId \in DOMAIN sessions' => Len(sessions'[sessionId].userIds) > 0
       /\ sessionId \notin DOMAIN sessions' =>
            MembersIn(sessions, sessionId) \subseteq {lastEvent'.userId}
       /\ \A s \in DOMAIN sessions' : Len(sessions'[s].userIds) >= 0
  /\ ( /\ lastEvent.op \in {"leaveSession", "disconnect"}
       /\ lastEvent.error = ""
       /\ lastEvent.sessionId # NULL
       /\ lastEvent.sessionId \notin DOMAIN sessions
       /\ Calls("joinSession")
       /\ lastEvent'.sessionId = lastEvent.sessionId ) =>
       /\ lastEvent'.error = "Invalid session ID."
       /\ UNCHANGED <<sessions, users>>
C4_EmptiedSessionIsRemoved == [][C4_Step]_vars
\* A leaveSession by the last member has deleted the session.
C4_Witness ==
  /\ Did("leaveSession")
  /\ lastEvent.sessionId \notin DOMAIN sessions
  /\ lastEvent.userId \in DOMAIN users
\* A joinSession naming a session that is gone was answered with the error.
C4_WitnessJoin ==
  /\ lastEvent.op = "joinSession"
  /\ lastEvent.error = "Invalid session ID."
  /\ lastEvent.sessionId \in issued.session \ DOMAIN sessions

\* C5 as stated: a joinSession by a user whose sessionId is set is answered
\* "Already in a session." whatever session id it names, and changes nothing.
C5_StepAsStated ==
  (Calls("joinSession") /\ users[lastEvent'.userId].sessionId # NULL) =>
    /\ lastEvent'.error = "Already in a session."
    /\ UNCHANGED <<sessions, users>>
C5_AlreadyInSessionForEveryTarget == [][C5_StepAsStated]_vars
\* C5: a joinSession by a user whose sessionId is set is rejected and changes
\* nothing: with "Already in a session." when the session it names is in the
\* store, with "Invalid session ID." when it is not (that check comes first).
C5_Step ==
  (Calls("joinSession") /\ users[lastEvent'.userId].sessionId # NULL) =>
    /\ lastEvent'.error = IF lastEvent'.sessionId \in DOMAIN sessions
                            THEN "Already in a session."
                          ELSE "Invalid session ID."
    /\ UNCHANGED <<sessions, users>>
C5_AlreadyInSessionWhenTargetExists == [][C5_Step]_vars
\* A user in a session named a session of the store and was turned away.
C5_Witness ==
  /\ lastEvent.op = "joinSession"
  /\ lastEvent.error = "Already in a session."
  /\ users[lastEvent.userId].sessionId # lastEvent.sessionId

\* C6: a leaveSession by a user with no sessionId is answered "Not in a
\* session." and changes nothing; by a user whose sessionId names session S it
\* takes the caller out of the userIds of S (the other members stay, the other
\* fields of S stay), clears the caller's sessionId, and leaves every other
\* user's record and every other session as it was.
C6_Step ==
  Calls("leaveSession") =>
    LET userId == lastEvent'.userId
        sessionId == users[userId].sessionId
    IN
    IF sessionId = NULL
    THEN /\ lastEvent'.error = "Not in a session."
         /\ UNCHANGED <<sessions, users>>
    ELSE /\ lastEvent'.error = ""
         /\ DOMAIN users' = DOMAIN users
         /\ users'[userId].sessionId = NULL
         /\ \A other \in DOMAIN users \ {userId} : users'[other] = users[other]
         /\ DOMAIN sessions \ {sessionId} = DOMAIN sessions' \ {sessionId}
         /\ \A other \in DOMAIN sessions \ {sessionId} : sessions'[other] = sessions[other]
         /\ sessionId \in DOMAIN sessions' =>
              /\ sessionId \in DOMAIN sessions
              /\ userId \notin MembersIn(sessions', sessionId)
              /\ MembersIn(sessions', sessionId) = MembersIn(sessions, sessionId) \ {userId}
              /\ sessions'[sessionId]
                   = [sessions[sessionId] EXCEPT !.userIds = sessions'[sessionId].userIds]
C6_LeaveTakesTheCallerOut == [][C6_Step]_vars
\* A member has left a session that other members keep alive, next to another
\* session.
C6_Witness ==
  /\ Did("leaveSession")
  /\ lastEvent.sessionId \in DOMAIN sessions
  /\ Cardinality(DOMAIN sessions) = 2
  /\ users[lastEvent.userId].sessionId = NULL
\* A user in no session has been answered "Not in a session.".
C6_WitnessNotInSession ==
  /\ lastEvent.op = "leaveSession"
  /\ lastEvent.error = "Not in a session."

\* C7: createSession with a non-negative integer videoId succeeds, and a
\* successful createSession puts one new session in the store, under an id
\* never used before, with state 'paused', lastKnownTime 0, the videoId given
\* and userIds [caller]; the caller's sessionId is that id, and the sessions
\* that were there are as they were.
C7_Step ==
  /\ \A userId \in DOMAIN users, videoId \in {Num(0), Num(7)} :
       CreateSession(userId, videoId) => lastEvent'.error = ""
  /\ Does("createSession") =>
       LET userId == lastEvent'.userId
           sessionId == lastEvent'.sessionId
           videoId == lastEvent'.data.videoId
       IN
       /\ IsNonNegInt(videoId)
       /\ sessionId \notin DOMAIN sessions
       /\ sessionId \notin issued.session
       /\ DOMAIN sessions' = DOMAIN sessions \cup {sessionId}
       /\ sessions'[sessionId].id = sessionId
       /\ sessions'[sessionId].state = "paused"
       /\ sessions'[sessionId].lastKnownTime = 0
       /\ sessions'[sessionId].videoId = videoId.val
       /\ sessions'[sessionId].userIds = <<userId>>
       /\ users'[userId].sessionId = sessionId
       /\ lastEvent'.resp.sessionId = sessionId
       /\ \A other \in DOMAIN sessions : sessions'[other] = sessions[other]
C7_CreateSessionMakesAFreshPausedSession == [][C7_Step]_vars
\* A session for video 0 has been created next to a session that was there.
C7_Witness ==
  /\ Did("createSession")
  /\ lastEvent.data.videoId = Num(0)
  /\ Cardinality(DOMAIN sessions) = 2
  /\ sessions[lastEvent.sessionId].userIds = <<lastEvent.userId>>

\* The playback values and the video a well-formed reboot payload supplies.
Supplied(data) ==
  [lastKnownTime |-> data.lastKnownTime.val,
   lastKnownTimeUpdatedAt |-> data.lastKnownTimeUpdatedAt.val,
   state |-> data.state.text,
   videoId |-> data.videoId.val]
\* The same four values as a session record holds them.
Stored(session) ==
  [lastKnownTime |-> session.lastKnownTime,
   lastKnownTimeUpdatedAt |-> GetTime(session.lastKnownTimeUpdatedAt),
   state |-> session.state,
   videoId |-> session.videoId]
\* The three playback values an answer carries.
Answered(resp) ==
  [lastKnownTime |-> resp.lastKnownTime,
   lastKnownTimeUpdatedAt |-> resp.lastKnownTimeUpdatedAt,
   state |-> resp.state]
\* The three playback values among four.
PlaybackOf(values) ==
  [lastKnownTime |-> values.lastKnownTime,
   lastKnownTimeUpdatedAt |-> values.lastKnownTimeUpdatedAt,
   state |-> values.state]

\* C8: a well-formed reboot naming a session id that is not in the store puts
\* a session under that id whose lastKnownTime, lastKnownTimeUpdatedAt, state
\* and videoId are the values supplied, with userIds [caller], and answers with
\* the values supplied.
C8_Step ==
  (Does("reboot") /\ lastEvent'.sessionId \notin DOMAIN sessions) =>
    LET sessionId == lastEvent'.sessionId
        data == lastEvent'.data
    IN
    /\ data.sessionId.val = sessionId
    /\ sessionId \in DOMAIN sessions'
    /\ sessions'[sessionId].id = sessionId
    /\ Stored(sessions'[sessionId]) = Supplied(data)
    /\ sessions'[sessionId].userIds = <<lastEvent'.userId>>
    /\ Answered(lastEvent'.resp) = PlaybackOf(Supplied(data))
C8_RebootCreatesFromSuppliedValues == [][C8_Step]_vars

\* C9: a well-formed reboot naming a session of the store leaves the session's
\* lastKnownTime, lastKnownTimeUpdatedAt, state and videoId as they were,
\* whatever the payload supplies, appends the caller to its userIds, and
\* answers with the stored values.
C9_Step ==
  (Does("reboot") /\ lastEvent'.sessionId \in DOMAIN sessions) =>
    LET sessionId == lastEvent'.sessionId IN
    /\ sessionId \in DOMAIN sessions'
    /\ Stored(sessions'[sessionId]) = Stored(sessions[sessionId])
    /\ sessions'[sessionId].userIds = Append(sessions[sessionId].userIds, lastEvent'.userId)
    /\ sessions'[sessionId]
         = [sessions[sessionId] EXCEPT !.userIds = sessions'[sessionId].userIds]
    /\ Answered(lastEvent'.resp) = PlaybackOf(Stored(sessions[sessionId]))
C9_RebootKeepsTheStoredValues == [][C9_Step]_vars
\* A user has rebooted into a session of another user with values of its own
\* and was answered with the values of the session.
C9_Witness ==
  /\ Did("reboot")
  /\ ~lastEvent.created
  /\ Answered(lastEvent.resp) # PlaybackOf(Supplied(lastEvent.data))
  /\ Answered(lastEvent.resp) = PlaybackOf(Stored(sessions[lastEvent.sessionId]))
  /\ Cardinality(Members(lastEvent.sessionId)) = 2

\* C10: of two reboots for the same session id that was not in the store, the
\* one handled first makes the session from its values; the one handled next
\* joins that record: it overwrites nothing, its caller is in userIds, and it
\* is answered with the values the first caller supplied.
C10_Step ==
  ( /\ Did("reboot")
    /\ lastEvent.created
    /\ Does("reboot")
    /\ lastEvent'.sessionId = lastEvent.sessionId ) =>
    LET sessionId == lastEvent.sessionId IN
    /\ ~lastEvent'.created
    /\ Stored(sessions[sessionId]) = Supplied(lastEvent.data)
    /\ Stored(sessions'[sessionId]) = Supplied(lastEvent.data)
    /\ lastEvent'.userId \in MembersIn(sessions', sessionId)
    /\ lastEvent.userId \in MembersIn(sessions', sessionId)
    /\ Answered(lastEvent'.resp) = PlaybackOf(Supplied(lastEvent.data))
C10_FirstRebootWins == [][C10_Step]_vars

\* The error answers of the checks of a payload's fields.
InvalidInput ==
  {"Invalid session ID.", "Invalid lastKnownTime.", "Invalid lastKnownTimeUpdatedAt.",
   "Invalid state.", "Invalid video ID."}
\* A payload with a field that is not what the handlers ask of it.
BadReboot(data) ==
  \/ ~(data.sessionId.type = "string" /\ data.sessionId.len = 16)
  \/ ~(data.lastKnownTime.type = "number" /\ data.lastKnownTime.whole
         /\ data.lastKnownTime.val >= 0)
  \/ ~(data.lastKnownTimeUpdatedAt.type = "number" /\ data.lastKnownTimeUpdatedAt.whole
         /\ data.lastKnownTimeUpdatedAt.val >= 0)
  \/ ~(data.state.type = "string" /\ data.state.text \in {"playing", "paused"})
  \/ ~(data.videoId.type = "number" /\ data.videoId.whole /\ data.videoId.val >= 0)
BadUpdate(data) ==
  \/ ~(data.lastKnownTime.type = "number" /\ data.lastKnownTime.whole
         /\ data.lastKnownTime.val >= 0)
  \/ ~(data.lastKnownTimeUpdatedAt.type = "number" /\ data.lastKnownTimeUpdatedAt.whole
         /\ data.lastKnownTimeUpdatedAt.val >= 0)
  \/ ~(data.state.type = "string" /\ data.state.text \in {"playing", "paused"})
\* The step is answered with an error and touches neither store nor any user.
Refused ==
  /\ lastEvent'.error # ""
  /\ lastEvent'.pushes = <<>>
  /\ UNCHANGED <<sessions, users>>

\* The payload of the step's call has a malformed field (of a call that was
\* answered with an error the payload is not kept, and counts as malformed).
BadPayload ==
  \/ Calls("reboot") /\ BadReboot(lastEvent'.data)
  \/ Calls("updateSession") /\ BadUpdate(lastEvent'.data)
  \/ Calls("createSession")
       /\ ~(lastEvent'.data.videoId.type = "number" /\ lastEvent'.data.videoId.whole
              /\ lastEvent'.data.videoId.val >= 0)

\* C11: a createSession, reboot or updateSession with a malformed field is
\* answered with an error, and a call answered with an error about a field
\* leaves sessions and users as they were and emits no 'update'.
C11_Step ==
  /\ ( /\ lastEvent'.op \in {"createSession", "reboot", "updateSession"}
       /\ lastEvent'.error \in InvalidInput ) => Refused
  /\ BadPayload => Refused
C11_NoMutationOnInvalidInput == [][C11_Step]_vars
\* A member of a session with another member has sent an update with a bad
\* state and was turned away.
C11_Witness ==
  /\ lastEvent.op = "updateSession"
  /\ lastEvent.error = "Invalid state."
  /\ \E s \in DOMAIN sessions :
       /\ Joined(lastEvent.userId, s)
       /\ Cardinality(Members(s)) = 2

\* C12: a sweep that runs right after a sweep, with no call and no tick of the
\* clock between them, deletes nothing: the store after it is the store after
\* the first.
C12_Step ==
  (lastEvent.op = "vacuum" /\ Calls("vacuum")) =>
    /\ sessions' = sessions
    /\ lastEvent'.removed = {}
C12_SecondSweepRemovesNothing == [][C12_Step]_vars
\* A sweep has deleted sessions and the sweep after it has run.
C12_Witness ==
  /\ lastEvent.op = "vacuum"
  /\ lastEvent.follows
  /\ lastEvent.prior # {}
  /\ lastEvent.removed = {}

\* C15: the sweep deletes a session only if its userIds is empty and its
\* lastActivity is more than the idle threshold before the time of the sweep;
\* the sessions it keeps, and the users, are as they were.
C15_Step ==
  Calls("vacuum") =>
    /\ DOMAIN sessions' \subseteq DOMAIN sessions
    /\ \A s \in DOMAIN sessions \ DOMAIN sessions' :
         /\ Len(sessions[s].userIds) = 0
         /\ now - sessions[s].lastActivity > IdleThreshold
    /\ \A s \in DOMAIN sessions' : sessions'[s] = sessions[s]
    /\ lastEvent'.removed = DOMAIN sessions \ DOMAIN sessions'
    /\ UNCHANGED <<users, now>>
C15_SweepRemovesOnlyIdleEmptySessions == [][C15_Step]_vars
\* A sweep has deleted a session and kept one that was idle as long but has a
\* member.
C15_Witness ==
  /\ lastEvent.op = "vacuum"
  /\ lastEvent.removed # {}
  /\ \E s \in DOMAIN sessions :
       /\ Len(sessions[s].userIds) > 0
       /\ now - sessions[s].lastActivity > IdleThreshold
\* A sweep has kept an empty session that was active exactly the threshold ago.
C15_WitnessAtThreshold ==
  /\ lastEvent.op = "vacuum"
  /\ \E s \in DOMAIN sessions :
       /\ Len(sessions[s].userIds) = 0
       /\ now - sessions[s].lastActivity = IdleThreshold

\* The answers of POST update with status 500.
Status500 ==
  {"500 Missing parameter: lastKnownTime", "500 Invalid parameter: lastKnownTime",
   "500 Missing parameter: state", "500 Invalid parameter: state"}

\* C13: POST update answers 404 exactly when the id is not in the store, and
\* 500 when the id is there and lastKnownTime is missing, not an integer or
\* negative, or state is not 'playing' or 'paused'; an error answer leaves the
\* stores as they were; a success writes lastKnownTime, state,
\* lastKnownTimeUpdatedAt and lastActivity of that session and nothing else.
C13_Step ==
  Calls("POST update") =>
    LET sessionId == lastEvent'.sessionId
        body == lastEvent'.data
    IN
    /\ lastEvent'.error = "404 Unknown session id" <=> sessionId \notin DOMAIN sessions
    /\ lastEvent'.error # "" =>
         /\ UNCHANGED <<sessions, users>>
         /\ sessionId \in DOMAIN sessions => lastEvent'.error \in Status500
    /\ lastEvent'.error = "" =>
         /\ body.lastKnownTime.type = "number" /\ body.lastKnownTime.whole
         /\ body.lastKnownTime.val >= 0
         /\ body.state.type = "string" /\ body.state.text \in {"playing", "paused"}
         /\ DOMAIN sessions' = DOMAIN sessions
         /\ sessions'[sessionId] =
              [sessions[sessionId] EXCEPT !.lastKnownTime = body.lastKnownTime.val,
                                          !.state = body.state.text,
                                          !.lastKnownTimeUpdatedAt = now,
                                          !.lastActivity = now]
         /\ \A other \in DOMAIN sessions \ {sessionId} : sessions'[other] = sessions[other]
         /\ lastEvent'.pushes = <<>>
         /\ UNCHANGED users
C13_LegacyUpdate == [][C13_Step]_vars
\* POST update has written a session that has a member, some time after the
\* session was made.
C13_Witness ==
  /\ Did("POST update")
  /\ Len(sessions[lastEvent.sessionId].userIds) > 0
  /\ sessions[lastEvent.sessionId].lastActivity > 0
  /\ sessions[lastEvent.sessionId].lastKnownTime = 5
\* POST update has answered 500 for a session of the store.
C13_Witness500 ==
  /\ lastEvent.op = "POST update"
  /\ lastEvent.error \in Status500
  /\ lastEvent.sessionId \in DOMAIN sessions
\* POST update has answered 404.
C13_Witness404 ==
  /\ lastEvent.op = "POST update"
  /\ lastEvent.error = "404 Unknown session id"

\* C14: after a successful updateSession the session's lastKnownTime,
\* lastKnownTimeUpdatedAt and state are the values of that update, whatever an
\* earlier update stored (an older epoch is written over a newer one), and
\* videoId and userIds are as they were.
C14_Step ==
  Does("updateSession") =>
    LET sessionId == lastEvent'.sessionId
        data == lastEvent'.data
    IN
    /\ sessionId = users[lastEvent'.userId].sessionId
    /\ PlaybackOf(Stored(sessions'[sessionId]))
         = [lastKnownTime |-> data.lastKnownTime.val,
            lastKnownTimeUpdatedAt |-> data.lastKnownTimeUpdatedAt.val,
            state |-> data.state.text]
    /\ sessions'[sessionId].videoId = sessions[sessionId].videoId
    /\ sessions'[sessionId].userIds = sessions[sessionId].userIds
C14_LastWriterWins == [][C14_Step]_vars

\* C16: a session made by POST /sessions/create (under SpecLegacy every
\* session of the store is one) is not deleted by a leaveSession or a
\* disconnect, its last member's included: a step that deletes a session is a
\* sweep.
C16_Step ==
  /\ (Does("leaveSession") \/ Does("disconnect")) => DOMAIN sessions \subseteq DOMAIN sessions'
  /\ DOMAIN sessions \ DOMAIN sessions' # {} => Calls("vacuum")
C16_LegacySessionOutlivesItsMembers == [][C16_Step]_vars

\* C17: the session store after a user disconnects is the store after that
\* user's leaveSession (the same store when the user is in no session), and
\* the user is gone from users, whose other records are as they were.
C17_Step ==
  Does("disconnect") =>
    LET userId == lastEvent'.userId
        sessionId == users[userId].sessionId
    IN
    /\ LeaveError(userId) # "" => sessions' = sessions
    /\ LeaveError(userId) = "" => sessions' = LeaveStore(sessions, sessionId, userId)
    /\ DOMAIN users' = DOMAIN users \ {userId}
    /\ \A other \in DOMAIN users' : users'[other] = users[other]
C17_DisconnectIsLeaveThenRemoval == [][C17_Step]_vars
\* The last member of a session has disconnected and the session is gone.
C17_Witness ==
  /\ Did("disconnect")
  /\ lastEvent.sessionId # NULL
  /\ lastEvent.sessionId \notin DOMAIN sessions
  /\ lastEvent.userId \notin DOMAIN users
\* A member has disconnected from a session that another member keeps alive.
C17_WitnessSurvivor ==
  /\ Did("disconnect")
  /\ lastEvent.sessionId \in DOMAIN sessions
  /\ lastEvent.userId \notin Members(lastEvent.sessionId)

\* C18: no user id occurs twice in the userIds of a session.
C18_NoDuplicateMembers ==
  \A s \in DOMAIN sessions :
    \A i, j \in DOMAIN sessions[s].userIds :
      sessions[s].userIds[i] = sessions[s].userIds[j] => i = j

\* C19: every session of the store has a videoId >= 0, a lastKnownTime >= 0
\* and a state of 'playing' or 'paused', and a POST /sessions/create that
\* stored a session was given a non-negative integer videoId.
C19_StoredFieldsAreValid ==
  /\ \A s \in DOMAIN sessions :
       /\ sessions[s].videoId >= 0
       /\ sessions[s].lastKnownTime >= 0
       /\ sessions[s].state \in {"playing", "paused"}
  /\ Did("POST create") =>
       /\ lastEvent.data.videoId.type = "number"
       /\ lastEvent.data.videoId.whole
       /\ lastEvent.data.videoId.val >= 0

\* C20: the sessionId of a connected user, when set, names a session of the
\* store whose userIds holds the user, and no handler has thrown on the record
\* of a session that is not there.
C20_SessionOfAUserExists ==
  /\ \A userId \in DOMAIN users :
       users[userId].sessionId # NULL =>
         /\ users[userId].sessionId \in DOMAIN sessions
         /\ userId \in Members(users[userId].sessionId)
  /\ ~(crashed /\ lastEvent.sessionId \notin DOMAIN sessions)
\* A sweep has deleted a session while a user is in another one.
C20_Witness ==
  /\ lastEvent.op = "vacuum"
  /\ lastEvent.removed # {}
  /\ \E userId \in DOMAIN users : users[userId].sessionId # NULL
\* A member has left a session that another user is still in.
C20_WitnessLeave ==
  /\ lastEvent.op \in {"leaveSession", "disconnect"}
  /\ lastEvent.error = ""
  /\ lastEvent.sessionId # NULL
  /\ \E userId \in DOMAIN users : users[userId].sessionId = lastEvent.sessionId

\* C21: once every connected user has disconnected, every session left in the
\* store has empty userIds, and a sweep that ran with no user connected and
\* every session it found idle for more than the threshold has left the store
\* empty.
C21_NoSessionLeak ==
  /\ (issued.user # {} /\ DOMAIN users = {}) =>
       \A s \in DOMAIN sessions : Len(sessions[s].userIds) = 0
  /\ ( /\ lastEvent.op = "vacuum"
       /\ DOMAIN users = {}
       /\ \A s \in DOMAIN sessions : now - sessions[s].lastActivity > IdleThreshold ) =>
       DOMAIN sessions = {}

\* C22: a step that changes the lastKnownTime, lastKnownTimeUpdatedAt or state
\* of a session, by updateSession or by POST update, emits to every user joined
\* to the session, the writer aside, an 'update' with the values now stored.
C22_Step ==
  \A s \in DOMAIN sessions \cap DOMAIN sessions' :
    PlaybackOf(Stored(sessions'[s])) # PlaybackOf(Stored(sessions[s])) =>
      \A userId \in DOMAIN users' :
        (users'[userId].sessionId = s /\ userId # lastEvent'.userId) =>
          \E i \in DOMAIN lastEvent'.pushes :
            /\ lastEvent'.pushes[i].to = userId
            /\ lastEvent'.pushes[i].lastKnownTime = sessions'[s].lastKnownTime
            /\ lastEvent'.pushes[i].lastKnownTimeUpdatedAt
                 = GetTime(sessions'[s].lastKnownTimeUpdatedAt)
            /\ lastEvent'.pushes[i].state = sessions'[s].state
C22_MembersAreToldOfEveryChange == [][C22_Step]_vars

====
